---- MODULE Spec2Model ----
\* BELTS: max flow with edge lower bounds and node caps (belts/main.py).
\* Quantities are integers (whole items per minute), so the tolerances of the
\* code (> 1e-9, abs(..) > 1e-6) become > 0 and # 0, and round(x, 2) of a
\* whole number is that number.
EXTENDS Integers, Sequences, FiniteSets, TLC

\* ---------------------------------------------------------------- bounds
MaxEdges == 3
MaxHi == 2
MaxLo == 1
MaxSupply == 3
MaxCap == 1

\* ------------------------------------------------------- identifiers
\* Every identifier the solver can meet, in ascending Python str order
\* (sorted() compares code points: digits < '_' < 'a'..'z').
IdOrder ==
  << "__dummy_sink__", "__dummy_source__", "__virtual_source__",
     "a", "a_in", "a_out", "s1", "s1_in", "s1_out", "s2", "s2_in", "s2_out",
     "sink", "sink_in", "sink_out" >>

RankOf == [n \in {IdOrder[i] : i \in 1..Len(IdOrder)} |->
             CHOOSE i \in 1..Len(IdOrder) : IdOrder[i] = n]

Rank(n) == RankOf[n]

\* sorted(S) for a set of identifiers
RECURSIVE SortIds(_)
SortIds(S) ==
  IF S = {} THEN << >>
  ELSE LET m == CHOOSE x \in S : \A y \in S : Rank(x) <= Rank(y)
       IN  << m >> \o SortIds(S \ {m})

\* f"{node}_in", f"{node}_out"
InName(node) == node \o "_in"
OutName(node) == node \o "_out"

dummy_source == "__dummy_source__"
dummy_sink == "__dummy_sink__"
virtual_source == "__virtual_source__"

Range(s) == {s[i] : i \in 1..Len(s)}

RECURSIVE SumSeq(_)
SumSeq(s) == IF s = << >> THEN 0 ELSE Head(s) + SumSeq(Tail(s))

\* every enumeration order of a Python set
RECURSIVE Orders(_)
Orders(S) ==
  IF S = {} THEN {<< >>}
  ELSE UNION {{<< x >> \o p : p \in Orders(S \ {x})} : x \in S}

\* ------------------------------------------------------- MaxFlowSolver
\* graph: residual capacities, a function on the (u, v) keys that exist;
\* original_capacity: as in the code; nodes: the node set.
EmptySolver == [graph |-> << >>, original_capacity |-> << >>, nodes |-> {}]

\* self.graph[u][v] read through the defaultdict (missing key = 0)
Residual(g, u, v) == IF << u, v >> \in DOMAIN g THEN g[<< u, v >>] ELSE 0

\* self.graph[u].keys()
Neighbors(g, u) == {p[2] : p \in {q \in DOMAIN g : q[1] = u}}

SetKey(g, k, val) ==
  IF k \in DOMAIN g THEN [g EXCEPT ![k] = val] ELSE g @@ (k :> val)

add_edge(s, u, v, capacity) ==
  LET c == Residual(s.graph, u, v) + capacity
  IN  [graph |-> SetKey(s.graph, << u, v >>, c),
       original_capacity |-> SetKey(s.original_capacity, << u, v >>, c),
       nodes |-> s.nodes \cup {u, v}]

\* add a sequence of [from, to, capacity] edges in order
RECURSIVE add_edges(_, _)
add_edges(s, es) ==
  IF es = << >> THEN s
  ELSE add_edges(add_edge(s, Head(es).from, Head(es).to, Head(es).capacity),
                 Tail(es))

\* the for-loop of bfs over the sorted neighbours of u, from index i
RECURSIVE BfsScan(_, _, _, _, _, _, _, _)
BfsScan(g, snk, u, nbrs, i, queue, visited, parent) ==
  IF i > Len(nbrs)
  THEN [found |-> FALSE, queue |-> queue, visited |-> visited, parent |-> parent]
  ELSE LET v == nbrs[i]
       IN  IF v \notin visited /\ Residual(g, u, v) > 0
           THEN IF v = snk
                THEN [found |-> TRUE, queue |-> queue,
                      visited |-> visited \cup {v}, parent |-> parent @@ (v :> u)]
                ELSE BfsScan(g, snk, u, nbrs, i + 1, Append(queue, v),
                             visited \cup {v}, parent @@ (v :> u))
           ELSE BfsScan(g, snk, u, nbrs, i + 1, queue, visited, parent)

ReverseSeq(s) == [i \in 1..Len(s) |-> s[Len(s) + 1 - i]]

\* variant: the neighbours are scanned in descending identifier order
RECURSIVE BfsLoop_Descending(_, _, _, _, _)
BfsLoop_Descending(g, snk, queue, visited, parent) ==
  IF queue = << >>
  THEN [found |-> FALSE, parent |-> parent, visited |-> visited]
  ELSE LET u == Head(queue)
           r == BfsScan(g, snk, u, ReverseSeq(SortIds(Neighbors(g, u))), 1, Tail(queue),
                        visited, parent)
       IN  IF r.found
           THEN [found |-> TRUE, parent |-> r.parent, visited |-> r.visited]
           ELSE BfsLoop_Descending(g, snk, r.queue, r.visited, r.parent)

\* the while-loop of bfs
RECURSIVE BfsLoop(_, _, _, _, _)
BfsLoop(g, snk, queue, visited, parent) ==
  IF queue = << >>
  THEN [found |-> FALSE, parent |-> parent, visited |-> visited]
  ELSE LET u == Head(queue)
           r == BfsScan(g, snk, u, SortIds(Neighbors(g, u)), 1, Tail(queue),
                        visited, parent)
       IN  IF r.found
           THEN [found |-> TRUE, parent |-> r.parent, visited |-> r.visited]
           ELSE BfsLoop(g, snk, r.queue, r.visited, r.parent)

bfs(g, source, snk) == BfsLoop(g, snk, << source >>, {source}, << >>)

\* the edges (u, v) of the path that parent records, from snk back to source
RECURSIVE PathEdges(_, _, _)
PathEdges(parent, source, v) ==
  IF v = source THEN << >>
  ELSE << << parent[v], v >> >> \o PathEdges(parent, source, parent[v])

\* variant: the residual of the edge into the sink is taken for the minimum
MinResidual_First(g, path) == Residual(g, path[1][1], path[1][2])

RECURSIVE MinResidual(_, _)
MinResidual(g, path) ==
  IF Len(path) = 1 THEN Residual(g, path[1][1], path[1][2])
  ELSE LET m == MinResidual(g, Tail(path))
           r == Residual(g, path[1][1], path[1][2])
       IN  IF r < m THEN r ELSE m

\* variant: the reverse edges are not credited
RECURSIVE Push_NoReverse(_, _, _)
Push_NoReverse(g, path, path_flow) ==
  IF path = << >> THEN g
  ELSE LET u == path[1][1]
           v == path[1][2]
       IN  Push_NoReverse(SetKey(g, << u, v >>, Residual(g, u, v) - path_flow),
                          Tail(path), path_flow)

\* graph[u][v] -= path_flow; graph[v][u] += path_flow along the path
RECURSIVE Push(_, _, _)
Push(g, path, path_flow) ==
  IF path = << >> THEN g
  ELSE LET u == path[1][1]
           v == path[1][2]
           g1 == SetKey(g, << u, v >>, Residual(g, u, v) - path_flow)
           g2 == SetKey(g1, << v, u >>, Residual(g1, v, u) + path_flow)
       IN  Push(g2, Tail(path), path_flow)

\* get_reachable_from_source: the visited set (the caller sorts it)
RECURSIVE ReachLoop(_, _, _)
ReachLoop(g, queue, visited) ==
  IF queue = << >> THEN visited
  ELSE LET u == Head(queue)
           new == {v \in Neighbors(g, u) : v \notin visited /\ Residual(g, u, v) > 0}
       IN  ReachLoop(g, Tail(queue) \o SortIds(new), visited \cup new)

\* variant: the visited nodes are returned in the order of their discovery
RECURSIVE DiscoveryLoop(_, _, _)
DiscoveryLoop(g, queue, seen) ==
  IF queue = << >> THEN seen
  ELSE LET u == Head(queue)
           new == SortIds({v \in Neighbors(g, u) : v \notin Range(seen) /\ Residual(g, u, v) > 0})
       IN  DiscoveryLoop(g, Tail(queue) \o new, seen \o new)

get_reachable_Discovery(g, source) == DiscoveryLoop(g, << source >>, << source >>)

get_reachable_from_source(g, source) == SortIds(ReachLoop(g, << source >>, {source}))

\* ------------------------------------------------------------ requests
\* A request: edges (a sequence of [from, to, lo, hi]), node_caps (a function
\* on the capped nodes), sources (a sequence of [node, supply]) and sink.
NodePairs ==
  << << "s1", "a" >>, << "s1", "sink" >>, << "s2", "a" >>,
     << "a", "s1" >>, << "a", "sink" >> >>

EdgeChoices ==
  {[from |-> NodePairs[i][1], to |-> NodePairs[i][2], lo |-> l, hi |-> h, ix |-> i] :
     i \in 1..Len(NodePairs), l \in 0..MaxLo, h \in 1..MaxHi}

\* valid edge lists (0 <= lo <= hi), listed in NodePairs order; the same
\* pair may be listed more than once
RECURSIVE EdgeLists(_, _)
EdgeLists(n, from_ix) ==
  IF n = 0 THEN {<< >>}
  ELSE {<< >>} \cup
       UNION {{<< [from |-> e.from, to |-> e.to, lo |-> e.lo, hi |-> e.hi] >> \o rest :
                 rest \in EdgeLists(n - 1, e.ix)} :
              e \in {c \in EdgeChoices : c.ix >= from_ix /\ c.lo <= c.hi}}

CapChoices ==
  {<< >>} \cup {("a" :> c) : c \in 1..MaxCap}

SourceChoices ==
  {<< [node |-> "s1", supply |-> k] >> : k \in 1..MaxSupply}
  \cup {<< [node |-> "s1", supply |-> k], [node |-> "s2", supply |-> 1] >> : k \in 1..MaxSupply}

\* the requests with at most n edges
Requests(n) ==
  {[edges |-> es, node_caps |-> nc, sources |-> ss, sink |-> "sink"] :
     es \in EdgeLists(n, 1) \ {<< >>}, nc \in CapChoices, ss \in SourceChoices}

\* ------------------------------------------------------------- reducer
\* edge.get("lo", 0): an edge record without the field lo is an edge whose
\* "lo" key is omitted
Lo(e) == IF "lo" \in DOMAIN e THEN e.lo ELSE 0

all_nodes(d) ==
  {d.sink} \cup {e.from : e \in Range(d.edges)} \cup {e.to : e \in Range(d.edges)}
  \cup {s.node : s \in Range(d.sources)}

source_nodes(d) == {s.node : s \in Range(d.sources)}

\* the keys of split_nodes (its values are OutName of the key)
SplitSet(d) ==
  {n \in all_nodes(d) : n \in DOMAIN d.node_caps /\ n # d.sink /\ n \notin source_nodes(d)}

u_actual(d, u) == IF u \in SplitSet(d) THEN OutName(u) ELSE u
v_actual(d, v) == IF v \in SplitSet(d) THEN InName(v) ELSE v

transformed_edges(d) ==
  LET split == SplitSet(d)
  IN  [i \in 1..Len(d.edges) |->
        [from |-> IF d.edges[i].from \in split THEN OutName(d.edges[i].from)
                  ELSE d.edges[i].from,
         to |-> IF d.edges[i].to \in split THEN InName(d.edges[i].to)
                ELSE d.edges[i].to,
         capacity |-> d.edges[i].hi - Lo(d.edges[i])]]

\* edge_mapping: keyed by (u_actual, v_actual); a later edge with the same key
\* overwrites the entry and keeps the key's position
MappingKeys(d) == {<< e.from, e.to >> : e \in Range(transformed_edges(d))}

edge_mapping(d) ==
  LET te == transformed_edges(d)
  IN
  [k \in MappingKeys(d) |->
     LET i == CHOOSE j \in 1..Len(d.edges) :
                /\ << te[j].from, te[j].to >> = k
                /\ \A m \in (j + 1)..Len(d.edges) : << te[m].from, te[m].to >> # k
     IN  [original_from |-> d.edges[i].from, original_to |-> d.edges[i].to,
          lo |-> Lo(d.edges[i]), hi |-> d.edges[i].hi,
          transformed_capacity |-> d.edges[i].hi - Lo(d.edges[i])]]

\* imbalance[n]: += lo at the head, -= lo at the tail of every edge
ImbalanceKeys(d) == {k[1] : k \in MappingKeys(d)} \cup {k[2] : k \in MappingKeys(d)}

imbalance(d) ==
  LET te == transformed_edges(d)
  IN  [n \in ImbalanceKeys(d) |->
        SumSeq([i \in 1..Len(d.edges) |->
           (IF te[i].to = n THEN Lo(d.edges[i]) ELSE 0)
           - (IF te[i].from = n THEN Lo(d.edges[i]) ELSE 0)])]

internal_imbalance(d) ==
  LET imb == imbalance(d)
  IN  [n \in {m \in ImbalanceKeys(d) : m \notin source_nodes(d) /\ m # d.sink} |->
        imb[n]]

\* split_edges, in the order in which split_nodes was filled
split_edges(d, split_order) ==
  [i \in 1..Len(split_order) |->
     [from |-> InName(split_order[i]), to |-> OutName(split_order[i]),
      capacity |-> d.node_caps[split_order[i]]]]

\* the dummy edges of the circulation check, for the sorted internal nodes
dummy_edges(d) ==
  LET imb == internal_imbalance(d)
      ks == SortIds(DOMAIN imb)
      one(n) == IF imb[n] > 0
                THEN << [from |-> dummy_source, to |-> n, capacity |-> imb[n]] >>
                ELSE IF imb[n] < 0
                THEN << [from |-> n, to |-> dummy_sink, capacity |-> 0 - imb[n]] >>
                ELSE << >>
      RECURSIVE all(_)
      all(i) == IF i > Len(ks) THEN << >> ELSE one(ks[i]) \o all(i + 1)
  IN  all(1)

total_dummy_demand(d) ==
  LET de == dummy_edges(d)
  IN  SumSeq([i \in 1..Len(de) |->
         IF de[i].from = dummy_source THEN de[i].capacity ELSE 0])

solver_feasibility(d, split_order) ==
  add_edges(add_edges(EmptySolver, transformed_edges(d) \o split_edges(d, split_order)),
            dummy_edges(d))

\* edge["lo"] of total_lo_from_source raises KeyError when an edge that
\* leaves a source node has no "lo" key
LoKeyError(d) ==
  \E i \in 1..Len(d.edges) :
    d.edges[i].from \in source_nodes(d) /\ "lo" \notin DOMAIN d.edges[i]

\* adjusted_supply: a dict keyed by source node, so the last entry of a node wins
total_lo_from_source(d, n) ==
  SumSeq([i \in 1..Len(d.edges) |-> IF d.edges[i].from = n THEN d.edges[i].lo ELSE 0])

LastSupply(d, n) ==
  LET i == CHOOSE j \in 1..Len(d.sources) :
             /\ d.sources[j].node = n
             /\ \A m \in (j + 1)..Len(d.sources) : d.sources[m].node # n
  IN  d.sources[i].supply

adjusted_supply(d) ==
  [n \in source_nodes(d) |-> LastSupply(d, n) - total_lo_from_source(d, n)]

RECURSIVE SumOver(_, _)
SumOver(f, S) ==
  IF S = {} THEN 0
  ELSE LET x == CHOOSE y \in S : TRUE IN f[x] + SumOver(f, S \ {x})

total_adjusted_supply(d) == SumOver(adjusted_supply(d), source_nodes(d))

source_edges(d) ==
  LET adj == adjusted_supply(d)
  IN  [i \in 1..Len(d.sources) |->
        [from |-> virtual_source, to |-> d.sources[i].node,
         capacity |-> adj[d.sources[i].node]]]

solver2_init(d, split_order) ==
  add_edges(add_edges(EmptySolver, transformed_edges(d) \o split_edges(d, split_order)),
            source_edges(d))

\* ------------------------------------------------------------ responses
NoResult ==
  [status |-> "none", max_flow_per_min |-> 0, flows |-> << >>,
   cut_reachable |-> << >>, demand_balance |-> 0,
   tight_nodes |-> << >>, tight_edges |-> << >>]

\* the exception that leaves solve_belts and main: no response is written
ErrorResult == [NoResult EXCEPT !.status = "error"]

FirstTwo(s) == IF Len(s) > 2 THEN SubSeq(s, 1, 2) ELSE s

\* step 1 response: reachable minus the two dummy terminals
CirculationInfeasible(d, s, flow) ==
  LET reachable == get_reachable_from_source(s.graph, dummy_source)
      keep(n) == n \notin {dummy_source, dummy_sink}
  IN  [NoResult EXCEPT !.status = "infeasible",
                       !.cut_reachable = SelectSeq(reachable, keep),
                       !.demand_balance = total_dummy_demand(d) - flow]

\* tight_nodes: capped nodes of reachable whose in -> out edge has no residual
tight_nodes(d, s, reachable) ==
  LET tight(node) ==
        /\ node \in DOMAIN d.node_caps
        /\ InName(node) \in s.nodes \cup {virtual_source}
        /\ u_actual(d, node) \in Neighbors(s.graph, InName(node))
        /\ Residual(s.graph, InName(node), u_actual(d, node)) <= 0
  IN  SelectSeq(reachable, tight)

\* the original edges matched to the reduced edge (u, v), in request order
MatchingEdges(d, s, u, v) ==
  LET match(e) ==
        /\ (u = e.from \/ (e.from \in SplitSet(d) /\ u = OutName(e.from)))
        /\ (v = e.to \/ v = InName(e.to))
      hit == SelectSeq(d.edges, match)
  IN  [i \in 1..Len(hit) |->
         [from |-> hit[i].from, to |-> hit[i].to,
          flow_needed |-> s.original_capacity[<< u, v >>]]]

\* tight_edges: for u in reachable, for v in solver2.nodes (in node_order)
tight_edges(d, s, reachable, node_order) ==
  LET crossing(u, v) ==
        /\ v \notin Range(reachable)
        /\ << u, v >> \in DOMAIN s.original_capacity
        /\ Residual(s.graph, u, v) <= 0
      RECURSIVE inner(_, _)
      inner(u, j) ==
        IF j > Len(node_order) THEN << >>
        ELSE (IF crossing(u, node_order[j])
              THEN MatchingEdges(d, s, u, node_order[j]) ELSE << >>)
             \o inner(u, j + 1)
      RECURSIVE outer(_)
      outer(i) ==
        IF i > Len(reachable) THEN << >>
        ELSE (IF reachable[i] = virtual_source THEN << >> ELSE inner(reachable[i], 1))
             \o outer(i + 1)
  IN  outer(1)

\* step 3 response
MainInfeasible(d, s, flow, node_order) ==
  LET reachable == get_reachable_from_source(s.graph, virtual_source)
      keep(n) == n # virtual_source
  IN  [NoResult EXCEPT !.status = "infeasible",
                       !.cut_reachable = SelectSeq(reachable, keep),
                       !.demand_balance = total_adjusted_supply(d) - flow,
                       !.tight_nodes = FirstTwo(tight_nodes(d, s, reachable)),
                       !.tight_edges = FirstTwo(tight_edges(d, s, reachable, node_order))]

\* (from, to) order of flows.sort
FlowBefore(x, y) ==
  \/ Rank(x.from) < Rank(y.from)
  \/ (x.from = y.from /\ Rank(x.to) <= Rank(y.to))

RECURSIVE SortFlows(_)
SortFlows(S) ==
  IF S = {} THEN << >>
  ELSE LET m == CHOOSE x \in S : \A y \in S : FlowBefore(x, y)
       IN  << m >> \o SortFlows(S \ {m})

\* flows: actual_flow = (transformed_capacity - residual) + lo per
\* edge_mapping entry, entries > 0 kept, sorted by (from, to)
flows(d, s) ==
  LET em == edge_mapping(d)
      af == [k \in MappingKeys(d) |->
               (em[k].transformed_capacity - Residual(s.graph, k[1], k[2])) + em[k].lo]
  IN  SortFlows({[from |-> em[k].original_from, to |-> em[k].original_to,
                  flow |-> af[k]] :
                 k \in {q \in MappingKeys(d) : af[q] > 0}})

actual_flow_to_sink(d, fl) ==
  SumSeq([i \in 1..Len(fl) |-> IF fl[i].to = d.sink THEN fl[i].flow ELSE 0])

OkResult(d, s) ==
  LET fl == flows(d, s)
  IN  [NoResult EXCEPT !.status = "ok",
                       !.max_flow_per_min = actual_flow_to_sink(d, fl),
                       !.flows = fl]

\* --------------------------------------------------------------- state
\* BELTS: data, pc, split_nodes, solver, max_flow, result.
\* FACTORY: fdata (the request), fpc, the locals low, high, max_feasible of
\* the binary search, iterations (the rounds of its loop done), fresult, and
\* lp_abnormal (the solves of this request whose backend status was neither
\* "Optimal" nor "Infeasible").
VARIABLES data, pc, split_nodes, solver, max_flow, result,
          fdata, fpc, low, high, max_feasible, iterations, fresult, lp_abnormal

belts_vars == << data, pc, split_nodes, solver, max_flow, result >>

factory_vars == << fdata, fpc, low, high, max_feasible, iterations, fresult, lp_abnormal >>

vars == << belts_vars, factory_vars >>

\* the belts tool is started on its own: no factory request is in play
FactoryIdle ==
  /\ fdata = << >>
  /\ fpc = "idle"
  /\ low = 0
  /\ high = 0
  /\ max_feasible = 0
  /\ iterations = 0
  /\ fresult = << >>
  /\ lp_abnormal = 0

Init ==
  /\ data \in Requests(MaxEdges)
  /\ pc = "start"
  /\ split_nodes = << >>
  /\ solver = EmptySolver
  /\ max_flow = 0
  /\ result = NoResult
  /\ FactoryIdle

\* source and sink of the edmonds_karp call in progress
Src == IF pc = "circulation" THEN dummy_source ELSE virtual_source
Snk == IF pc = "circulation" THEN dummy_sink ELSE data.sink

NeedsCirculation(d) ==
  \E n \in DOMAIN internal_imbalance(d) : internal_imbalance(d)[n] # 0

\* solve_belts up to the first edmonds_karp call; split_nodes is filled in
\* the iteration order of the set all_nodes
Reduce ==
  /\ pc = "start"
  /\ \E order \in Orders(SplitSet(data)) :
       /\ split_nodes' = order
       /\ IF NeedsCirculation(data)
          THEN /\ solver' = solver_feasibility(data, order)
               /\ pc' = "circulation"
               /\ UNCHANGED result
          ELSE IF LoKeyError(data)
          THEN /\ result' = ErrorResult
               /\ pc' = "done"
               /\ UNCHANGED solver
          ELSE /\ solver' = solver2_init(data, order)
               /\ pc' = "main"
               /\ UNCHANGED result
  /\ max_flow' = 0
  /\ UNCHANGED << data, factory_vars >>

\* one iteration of the while-loop of edmonds_karp
Augment ==
  /\ pc \in {"circulation", "main"}
  /\ LET b == bfs(solver.graph, Src, Snk)
     IN  /\ b.found
         /\ LET path == PathEdges(b.parent, Src, Snk)
                path_flow == MinResidual(solver.graph, path)
            IN  /\ solver' = [solver EXCEPT !.graph = Push(solver.graph, path, path_flow)]
                /\ max_flow' = max_flow + path_flow
  /\ UNCHANGED << data, pc, split_nodes, result, factory_vars >>

\* edmonds_karp of the circulation check returns
CirculationDone ==
  /\ pc = "circulation"
  /\ ~ bfs(solver.graph, Src, Snk).found
  /\ IF max_flow # total_dummy_demand(data)
     THEN /\ result' = CirculationInfeasible(data, solver, max_flow)
          /\ pc' = "done"
          /\ UNCHANGED << solver, max_flow >>
     ELSE IF LoKeyError(data)
     THEN /\ result' = ErrorResult
          /\ pc' = "done"
          /\ UNCHANGED << solver, max_flow >>
     ELSE /\ solver' = solver2_init(data, split_nodes)
          /\ max_flow' = 0
          /\ pc' = "main"
          /\ UNCHANGED result
  /\ UNCHANGED << data, split_nodes, factory_vars >>

\* edmonds_karp of the main flow returns; the tight-edge scan walks the set
\* solver2.nodes in its iteration order, of which only the nodes outside
\* reachable pass the first test
MainDone ==
  /\ pc = "main"
  /\ ~ bfs(solver.graph, Src, Snk).found
  /\ IF max_flow # total_adjusted_supply(data)
     THEN \E node_order \in
               Orders(solver.nodes \ ReachLoop(solver.graph, << virtual_source >>, {virtual_source})) :
            result' = MainInfeasible(data, solver, max_flow, node_order)
     ELSE result' = OkResult(data, solver)
  /\ pc' = "done"
  /\ UNCHANGED << data, split_nodes, solver, max_flow, factory_vars >>

Next == Reduce \/ Augment \/ CirculationDone \/ MainDone

Spec == Init /\ [][Next]_vars

\* requests that list every (from, to) pair at most once
DistinctPairs(d) ==
  \A i, j \in 1..Len(d.edges) :
    i # j => << d.edges[i].from, d.edges[i].to >> # << d.edges[j].from, d.edges[j].to >>

InitDistinct == Init /\ DistinctPairs(data)

SpecDistinct == InitDistinct /\ [][Next]_vars

\* ------------------------------------------------- the solver as a function
\* edmonds_karp run to completion: the solver it leaves and the flow it returns
RECURSIVE edmonds_karp(_, _, _, _)
edmonds_karp(s, source, snk, flow) ==
  LET b == bfs(s.graph, source, snk)
  IN  IF ~ b.found THEN [solver |-> s, max_flow |-> flow]
      ELSE LET path == PathEdges(b.parent, source, snk)
               path_flow == MinResidual(s.graph, path)
           IN  edmonds_karp([s EXCEPT !.graph = Push(s.graph, path, path_flow)],
                            source, snk, flow + path_flow)

\* steps 4 and 5 of solve_belts: every response the main flow can end in
main_flow(d, order) ==
  IF LoKeyError(d) THEN {ErrorResult}
  ELSE LET r == edmonds_karp(solver2_init(d, order), virtual_source, d.sink, 0)
       IN  IF r.max_flow # total_adjusted_supply(d)
           THEN {MainInfeasible(d, r.solver, r.max_flow, node_order) :
                   node_order \in
                     Orders(r.solver.nodes
                            \ ReachLoop(r.solver.graph, << virtual_source >>, {virtual_source}))}
           ELSE {OkResult(d, r.solver)}

\* every response solve_belts can give to the request d (one per iteration
\* order of its sets)
solve_belts(d) ==
  UNION {IF NeedsCirculation(d)
         THEN LET r == edmonds_karp(solver_feasibility(d, order), dummy_source, dummy_sink, 0)
              IN  IF r.max_flow # total_dummy_demand(d)
                  THEN {CirculationInfeasible(d, r.solver, r.max_flow)}
                  ELSE main_flow(d, order)
         ELSE main_flow(d, order) :
         order \in Orders(SplitSet(d))}

\* --------------------------------------------------- further request sets
\* edge lists over the given pairs, every pair listed at most once
RECURSIVE EdgeListsOn(_, _, _, _, _)
EdgeListsOn(pairs, los, his, n, from_ix) ==
  IF n = 0 THEN {<< >>}
  ELSE {<< >>} \cup
       UNION {{<< [from |-> pairs[i][1], to |-> pairs[i][2], lo |-> x[1], hi |-> x[2]] >>
                 \o rest :
                 rest \in EdgeListsOn(pairs, los, his, n - 1, i + 1), x \in los \X his} :
              i \in from_ix..Len(pairs)}

\* the request d with "lo": 0 written where the key is left out
WriteLo(d) ==
  [d EXCEPT !.edges =
     [i \in 1..Len(d.edges) |->
        [from |-> d.edges[i].from, to |-> d.edges[i].to,
         lo |-> Lo(d.edges[i]), hi |-> d.edges[i].hi]]]

\* valid edge lists over NodePairs, every pair listed at most once, in which
\* an edge either writes its lower bound or leaves "lo" out
RECURSIVE EdgeListsOmitting(_, _)
EdgeListsOmitting(n, from_ix) ==
  IF n = 0 THEN {<< >>}
  ELSE {<< >>} \cup
       UNION {{<< e >> \o rest : rest \in EdgeListsOmitting(n - 1, i + 1),
                 e \in {[from |-> NodePairs[i][1], to |-> NodePairs[i][2],
                          lo |-> x[1], hi |-> x[2]] :
                          x \in {y \in (0..MaxLo) \X (1..MaxHi) : y[1] <= y[2]}}
                       \cup {[from |-> NodePairs[i][1], to |-> NodePairs[i][2], hi |-> h] :
                               h \in 1..MaxHi}} :
              i \in from_ix..Len(NodePairs)}

\* valid requests in which at least one edge leaves "lo" out
RequestsOmittedLo(n) ==
  {[edges |-> es, node_caps |-> nc, sources |-> ss, sink |-> "sink"] :
     es \in {l \in EdgeListsOmitting(n, 1) :
               \E i \in 1..Len(l) : "lo" \notin DOMAIN l[i]},
     nc \in CapChoices, ss \in SourceChoices}

InitOmittedLo ==
  /\ data \in RequestsOmittedLo(MaxEdges)
  /\ pc = "start"
  /\ split_nodes = << >>
  /\ solver = EmptySolver
  /\ max_flow = 0
  /\ result = NoResult
  /\ FactoryIdle

SpecOmittedLo == InitOmittedLo /\ [][Next]_vars

\* requests with a node_caps entry for the source or for the sink; one of the
\* nodes carries the identifier "s1_in"
TerminalCapPairs ==
  << << "s1", "a" >>, << "s1", "sink" >>, << "s1_in", "s1" >>, << "a", "sink" >> >>

TerminalCapChoices ==
  UNION {[S -> 1..MaxCap] : S \in {T \in SUBSET {"a", "s1", "sink"} : T \cap {"s1", "sink"} # {}}}

RequestsTerminalCaps(n) ==
  {[edges |-> es, node_caps |-> nc,
    sources |-> << [node |-> "s1", supply |-> k] >>, sink |-> "sink"] :
     es \in {l \in EdgeListsOn(TerminalCapPairs, 0..MaxLo, 1..MaxHi, n, 1) :
               l # << >> /\ \A i \in 1..Len(l) : l[i].lo <= l[i].hi},
     nc \in TerminalCapChoices, k \in 1..MaxSupply}

InitTerminalCaps ==
  /\ data \in RequestsTerminalCaps(MaxEdges)
  /\ pc = "start"
  /\ split_nodes = << >>
  /\ solver = EmptySolver
  /\ max_flow = 0
  /\ result = NoResult
  /\ FactoryIdle

SpecTerminalCaps == InitTerminalCaps /\ [][Next]_vars

\* the request d without the node_caps entries of its sources and its sink
WithoutTerminalCaps(d) ==
  [d EXCEPT !.node_caps =
     [n \in DOMAIN d.node_caps \ (source_nodes(d) \cup {d.sink}) |-> d.node_caps[n]]]

\* malformed requests: a negative hi, hi < lo, a node cap <= 0 or a negative
\* supply
MalformedPairs == << << "s1", "a" >>, << "s1", "sink" >>, << "a", "sink" >> >>

Malformed(d) ==
  \/ \E i \in 1..Len(d.edges) : d.edges[i].hi < 0 \/ d.edges[i].hi < d.edges[i].lo
  \/ \E n \in DOMAIN d.node_caps : d.node_caps[n] <= 0
  \/ \E i \in 1..Len(d.sources) : d.sources[i].supply < 0

RequestsMalformed(n) ==
  {d \in {[edges |-> es, node_caps |-> nc,
           sources |-> << [node |-> "s1", supply |-> k] >>, sink |-> "sink"] :
             es \in EdgeListsOn(MalformedPairs, 0..MaxLo, (0 - 1)..MaxHi, n, 1) \ {<< >>},
             nc \in {<< >>} \cup {("a" :> c) : c \in (0 - 1)..MaxCap},
             k \in (0 - 1)..MaxSupply} :
     Malformed(d)}

InitMalformed ==
  /\ data \in RequestsMalformed(MaxEdges)
  /\ pc = "start"
  /\ split_nodes = << >>
  /\ solver = EmptySolver
  /\ max_flow = 0
  /\ result = NoResult
  /\ FactoryIdle

SpecMalformed == InitMalformed /\ [][Next]_vars

\* requests in which the node a has a cap, so that the reducer generates the
\* names "a_in" and "a_out", next to a node of the request that is itself
\* called "a_in"
CollisionPairs ==
  << << "s1", "a" >>, << "a", "sink" >>, << "s1", "a_in" >>, << "a_in", "sink" >>,
     << "a_in", "a" >> >>

RequestsCollision(n) ==
  {[edges |-> es, node_caps |-> ("a" :> c),
    sources |-> << [node |-> "s1", supply |-> k] >>, sink |-> "sink"] :
     es \in {l \in EdgeListsOn(CollisionPairs, 0..MaxLo, 1..MaxHi, n, 1) :
               /\ \A i \in 1..Len(l) : l[i].lo <= l[i].hi
               /\ \E i \in 1..Len(l) : "a_in" \in {l[i].from, l[i].to}
               /\ \E i \in 1..Len(l) : "a" \in {l[i].from, l[i].to}},
     c \in 1..MaxCap, k \in 1..MaxSupply}

InitCollision ==
  /\ data \in RequestsCollision(MaxEdges)
  /\ pc = "start"
  /\ split_nodes = << >>
  /\ solver = EmptySolver
  /\ max_flow = 0
  /\ result = NoResult
  /\ FactoryIdle

SpecCollision == InitCollision /\ [][Next]_vars

\* the request d with the node old called new in every edge
Renamed(d, old, new) ==
  [d EXCEPT !.edges =
     [i \in 1..Len(d.edges) |->
        [d.edges[i] EXCEPT !.from = IF @ = old THEN new ELSE @,
                           !.to = IF @ = old THEN new ELSE @]]]

\* ------------------------------------------------ MaxFlowSolver on its own
\* A solver is created empty, filled by a list of add_edge calls, then
\* edmonds_karp(source, sink) is run on it and get_reachable_from_source(source)
\* is read, the way solve_belts uses the class (main.py:225-229, 258, 263).
\* data holds the edge list, the source and the sink.
MaxGraphEdges == 4
MaxCapacity == 2

\* the pairs add_edge is called for, in call order; (s1, a) is added twice
GraphPairs ==
  << << "s1", "a" >>, << "s1", "a" >>, << "s1", "s2" >>, << "a", "s2" >>,
     << "s2", "a" >>, << "a", "sink" >>, << "s2", "sink" >>, << "a", "s1" >> >>

RECURSIVE GraphEdgeLists(_, _, _)
GraphEdgeLists(n, c, from_ix) ==
  IF n = 0 THEN {<< >>}
  ELSE {<< >>} \cup
       UNION {{<< [from |-> GraphPairs[i][1], to |-> GraphPairs[i][2], capacity |-> k] >>
                 \o rest :
                 rest \in GraphEdgeLists(n - 1, c, i + 1), k \in 0..c} :
              i \in from_ix..Len(GraphPairs)}

\* the graphs of at most n edges with capacities 0..c
Graphs(n, c) ==
  {[edges |-> es, source |-> "s1", sink |-> "sink"] : es \in GraphEdgeLists(n, c, 1) \ {<< >>}}

\* MaxFlowSolver(): no edge yet
InitSolver ==
  /\ data = [edges |-> << >>, source |-> "s1", sink |-> "sink"]
  /\ pc = "new"
  /\ split_nodes = << >>
  /\ solver = EmptySolver
  /\ max_flow = 0
  /\ result = NoResult
  /\ FactoryIdle

\* the add_edge calls that fill the solver
AddEdges ==
  /\ pc = "new"
  /\ \E d \in Graphs(MaxGraphEdges, MaxCapacity) :
       /\ data' = d
       /\ solver' = add_edges(EmptySolver, d.edges)
  /\ pc' = "flow"
  /\ UNCHANGED << split_nodes, max_flow, result, factory_vars >>

\* one iteration of the while-loop of edmonds_karp
AugmentFlow ==
  /\ pc = "flow"
  /\ LET b == bfs(solver.graph, data.source, data.sink)
     IN  /\ b.found
         /\ LET path == PathEdges(b.parent, data.source, data.sink)
                path_flow == MinResidual(solver.graph, path)
            IN  /\ solver' = [solver EXCEPT !.graph = Push(solver.graph, path, path_flow)]
                /\ max_flow' = max_flow + path_flow
  /\ UNCHANGED << data, pc, split_nodes, result, factory_vars >>

\* edmonds_karp returns max_flow and get_reachable_from_source is read
ReturnFlow ==
  /\ pc = "flow"
  /\ ~ bfs(solver.graph, data.source, data.sink).found
  /\ result' = [NoResult EXCEPT
                  !.max_flow_per_min = max_flow,
                  !.cut_reachable = get_reachable_from_source(solver.graph, data.source)]
  /\ pc' = "returned"
  /\ UNCHANGED << data, split_nodes, solver, max_flow, factory_vars >>

NextSolver == AddEdges \/ AugmentFlow \/ ReturnFlow

SpecSolver == InitSolver /\ [][NextSolver]_vars

\* =================================================================
\* FACTORY: steady-state production by linear programming
\* (factory/main.py, solve_factory_simplex). Quantities are exact rationals
\* [n, d] in lowest terms with d > 0, so the tolerance > 1e-9 of the code
\* becomes > 0.

\* ------------------------------------------------------------ rationals
Abs(k) == IF k < 0 THEN 0 - k ELSE k

RECURSIVE GCD(_, _)
GCD(a, b) == IF b = 0 THEN a ELSE GCD(b, a % b)

Rat(n, d) ==
  LET g == GCD(Abs(n), Abs(d))
      sgn == IF d < 0 THEN 0 - 1 ELSE 1
  IN  [n |-> (sgn * n) \div g, d |-> (sgn * d) \div g]

RInt(k) == [n |-> k, d |-> 1]

\* common factors are divided out before multiplying
RAdd(a, b) ==
  LET g == GCD(a.d, b.d)
  IN  Rat(a.n * (b.d \div g) + b.n * (a.d \div g), (a.d \div g) * b.d)

RNeg(a) == [n |-> 0 - a.n, d |-> a.d]
RSub(a, b) == RAdd(a, RNeg(b))

RMul(a, b) ==
  LET g1 == GCD(Abs(a.n), b.d)
      g2 == GCD(Abs(b.n), a.d)
  IN  Rat((a.n \div g1) * (b.n \div g2), (a.d \div g2) * (b.d \div g1))

RDiv(a, b) == RMul(a, Rat(b.d, b.n))

RLe(a, b) ==
  LET g == GCD(a.d, b.d)
  IN  a.n * (b.d \div g) <= b.n * (a.d \div g)

RLt(a, b) ==
  LET g == GCD(a.d, b.d)
  IN  a.n * (b.d \div g) < b.n * (a.d \div g)

RZero == RInt(0)

\* sum of f[k] over the keys in S
RECURSIVE RSum(_, _)
RSum(f, S) ==
  IF S = {} THEN RZero
  ELSE LET k == CHOOSE y \in S : TRUE IN RAdd(f[k], RSum(f, S \ {k}))

\* ---------------------------------------------------------------- names
\* the machine, recipe and item names of the requests, in Python str order
NameOrder == << "gear", "m1", "m2", "ore", "plate", "r1", "r2", "slag", "widget" >>

NameRank == [n \in {NameOrder[i] : i \in 1..Len(NameOrder)} |->
               CHOOSE i \in 1..Len(NameOrder) : NameOrder[i] = n]

\* sorted(S) for a set of names
RECURSIVE SortNames(_)
SortNames(S) ==
  IF S = {} THEN << >>
  ELSE LET m == CHOOSE x \in S : \A y \in S : NameRank[x] <= NameRank[y]
       IN  << m >> \o SortNames(S \ {m})

\* dict.get(key, default)
Get(f, k, default) == IF k \in DOMAIN f THEN f[k] ELSE default

\* --------------------------------------------------- speeds and item sets
get_eff_crafts_per_min(d, recipe) ==
  LET machine_type == recipe.machine
      base_speed == d.machines[machine_type].crafts_per_min
      module == Get(d.modules, machine_type, << >>)
      speed_mult == 1 + Get(module, "speed", 0)
  IN  Rat(base_speed * speed_mult * 60, recipe.time_s)

get_prod_mult(d, recipe) ==
  LET module == Get(d.modules, recipe.machine, << >>)
  IN  RInt(1 + Get(module, "prod", 0))

produced_items(d) == UNION {DOMAIN d.recipes[r].out : r \in DOMAIN d.recipes}
consumed_items(d) == UNION {DOMAIN d.recipes[r].in : r \in DOMAIN d.recipes}
all_items(d) == produced_items(d) \cup consumed_items(d)

raw_items(d) == {item \in all_items(d) : item \notin produced_items(d)}

byproduct_items(d) ==
  {item \in produced_items(d) : item \notin consumed_items(d) /\ item # d.target.item}

intermediate_items(d) ==
  (produced_items(d) \cap consumed_items(d)) \ {d.target.item}

\* ------------------------------------------------------------------ LP
\* coefficient of x[r] in net_production of item
NetCoef(d, item, r) ==
  LET recipe == d.recipes[r]
  IN  RSub(IF item \in DOMAIN recipe.out
           THEN RMul(RInt(recipe.out[item]), get_prod_mult(d, recipe)) ELSE RZero,
           IF item \in DOMAIN recipe.in THEN RInt(recipe.in[item]) ELSE RZero)

net_production(d, item) == [r \in DOMAIN d.recipes |-> NetCoef(d, item, r)]

\* variant: the supply constraint has its sign reversed, consumption must
\* reach the supply
ItemConstraints_SupplyFloor(d, item, target_rate_scaled) ==
  LET net == net_production(d, item)
      neg == [r \in DOMAIN d.recipes |-> RNeg(net[r])]
  IN  IF item = d.target.item
      THEN << [name |-> "Target_" \o item, a |-> net, op |-> "eq", b |-> target_rate_scaled] >>
      ELSE IF item \in intermediate_items(d)
      THEN << [name |-> "Balance_" \o item, a |-> net, op |-> "eq", b |-> RZero] >>
      ELSE IF item \in byproduct_items(d)
      THEN << [name |-> "Byproduct_" \o item, a |-> net, op |-> "ge", b |-> RZero] >>
      ELSE IF item \in raw_items(d)
      THEN << [name |-> "Raw_No_Production_" \o item, a |-> net, op |-> "le", b |-> RZero] >>
           \o (IF item \in DOMAIN d.limits.raw_supply_per_min
               THEN << [name |-> "Raw_Supply_" \o item, a |-> neg, op |-> "ge",
                        b |-> RInt(d.limits.raw_supply_per_min[item])] >>
               ELSE << >>)
      ELSE << >>

\* variant: the raw test comes first, so a target that no recipe produces
\* gets the raw constraints
ItemConstraints_RawFirst(d, item, target_rate_scaled) ==
  LET net == net_production(d, item)
      neg == [r \in DOMAIN d.recipes |-> RNeg(net[r])]
  IN  IF item \in raw_items(d)
      THEN << [name |-> "Raw_No_Production_" \o item, a |-> net, op |-> "le", b |-> RZero] >>
           \o (IF item \in DOMAIN d.limits.raw_supply_per_min
               THEN << [name |-> "Raw_Supply_" \o item, a |-> neg, op |-> "le",
                        b |-> RInt(d.limits.raw_supply_per_min[item])] >>
               ELSE << >>)
      ELSE IF item = d.target.item
      THEN << [name |-> "Target_" \o item, a |-> net, op |-> "eq", b |-> target_rate_scaled] >>
      ELSE IF item \in intermediate_items(d)
      THEN << [name |-> "Balance_" \o item, a |-> net, op |-> "eq", b |-> RZero] >>
      ELSE IF item \in byproduct_items(d)
      THEN << [name |-> "Byproduct_" \o item, a |-> net, op |-> "ge", b |-> RZero] >>
      ELSE << >>

\* the constraints try_solve_lp adds for one item: a . x op b
ItemConstraints(d, item, target_rate_scaled) ==
  LET net == net_production(d, item)
      neg == [r \in DOMAIN d.recipes |-> RNeg(net[r])]
  IN  IF item = d.target.item
      THEN << [name |-> "Target_" \o item, a |-> net, op |-> "eq", b |-> target_rate_scaled] >>
      ELSE IF item \in intermediate_items(d)
      THEN << [name |-> "Balance_" \o item, a |-> net, op |-> "eq", b |-> RZero] >>
      ELSE IF item \in byproduct_items(d)
      THEN << [name |-> "Byproduct_" \o item, a |-> net, op |-> "ge", b |-> RZero] >>
      ELSE IF item \in raw_items(d)
      THEN << [name |-> "Raw_No_Production_" \o item, a |-> net, op |-> "le", b |-> RZero] >>
           \o (IF item \in DOMAIN d.limits.raw_supply_per_min
               THEN << [name |-> "Raw_Supply_" \o item, a |-> neg, op |-> "le",
                        b |-> RInt(d.limits.raw_supply_per_min[item])] >>
               ELSE << >>)
      ELSE << >>

\* variant: no machine class gets a capacity constraint
MachineConstraints_None(d, machine_type) == << >>

\* the capacity constraint of one machine class, if it gets one
MachineConstraints(d, machine_type) ==
  LET users == {r \in DOMAIN d.recipes : d.recipes[r].machine = machine_type}
  IN  IF users # {} /\ machine_type \in DOMAIN d.limits.max_machines
      THEN << [name |-> "Machine_Cap_" \o machine_type,
               a |-> [r \in DOMAIN d.recipes |->
                        IF r \in users
                        THEN RDiv(RInt(1), get_eff_crafts_per_min(d, d.recipes[r]))
                        ELSE RZero],
               op |-> "le", b |-> RInt(d.limits.max_machines[machine_type])] >>
      ELSE << >>

\* all constraints of the problem, in the order in which the code adds them
Constraints(d, target_rate_scaled) ==
  LET items == SortNames(all_items(d))
      ms == SortNames(DOMAIN d.machines)
      RECURSIVE of_items(_)
      of_items(i) ==
        IF i > Len(items) THEN << >>
        ELSE ItemConstraints(d, items[i], target_rate_scaled) \o of_items(i + 1)
      RECURSIVE of_machines(_)
      of_machines(i) ==
        IF i > Len(ms) THEN << >>
        ELSE MachineConstraints(d, ms[i]) \o of_machines(i + 1)
  IN  of_items(1) \o of_machines(1)

\* lowBound=0 of every variable
LowBounds(d) ==
  LET rs == SortNames(DOMAIN d.recipes)
  IN  [i \in 1..Len(rs) |->
        [name |-> "crafts_" \o rs[i],
         a |-> [r \in DOMAIN d.recipes |-> IF r = rs[i] THEN RInt(1) ELSE RZero],
         op |-> "ge", b |-> RZero]]

\* objective: total machine usage
machine_usage(d, x) ==
  RSum([r \in DOMAIN d.recipes |-> RDiv(x[r], get_eff_crafts_per_min(d, d.recipes[r]))],
       DOMAIN d.recipes)

Dot(a, x) == RSum([r \in DOMAIN a |-> RMul(a[r], x[r])], DOMAIN a)

Holds(c, x) ==
  LET v == Dot(c.a, x)
  IN  IF c.op = "eq" THEN v = c.b
      ELSE IF c.op = "le" THEN RLe(v, c.b)
      ELSE RLe(c.b, v)

\* the point where the boundary lines of the constraints c1 and c2 meet, for
\* the two variables p and q (the empty set when the lines are parallel)
Meet(c1, c2, p, q) ==
  LET det == RSub(RMul(c1.a[p], c2.a[q]), RMul(c1.a[q], c2.a[p]))
  IN  IF det = RZero THEN {}
      ELSE {(p :> RDiv(RSub(RMul(c1.b, c2.a[q]), RMul(c2.b, c1.a[q])), det))
            @@ (q :> RDiv(RSub(RMul(c1.a[p], c2.b), RMul(c2.a[p], c1.b)), det))}

\* prob.solve: the optimal basic solutions of the problem; the empty set
\* when the status is not "Optimal". All costs are positive and x >= 0, so
\* a feasible problem has its optimum at a vertex, a point where two
\* boundary lines meet; when the problem has an equality, every feasible
\* point lies on its line and the vertices are where that line meets another.
OptimalVertices(d, rs, lines) ==
  LET n == Len(lines)
      eqs == {i \in 1..n : lines[i].op = "eq"
                            /\ (lines[i].a[rs[1]] # RZero \/ lines[i].a[rs[2]] # RZero)}
      pairs == IF eqs = {}
               THEN {p \in (1..n) \X (1..n) : p[1] < p[2]}
               ELSE LET e == CHOOSE i \in eqs : \A j \in eqs : i <= j
                    IN  {<< e, j >> : j \in (1..n) \ {e}}
      vertices == UNION {Meet(lines[p[1]], lines[p[2]], rs[1], rs[2]) : p \in pairs}
      feasible == {x \in vertices : \A k \in 1..n : Holds(lines[k], x)}
      usage == [x \in feasible |-> machine_usage(d, x)]
  IN  {x \in feasible : \A y \in feasible : RLe(usage[x], usage[y])}

LpOptima(d, target_rate_scaled) ==
  OptimalVertices(d, SortNames(DOMAIN d.recipes),
                  Constraints(d, target_rate_scaled) \o LowBounds(d))

\* ------------------------------------------------------------ responses
NoFactoryResult ==
  [status |-> "none", per_recipe_crafts_per_min |-> << >>, per_machine_counts |-> << >>,
   raw_consumption_per_min |-> << >>, byproduct_surplus_per_min |-> << >>,
   max_feasible_target_per_min |-> RZero, bottleneck_hint |-> << >>]

\* the positive entries of a dict of rationals
Positive(f) == [k \in {j \in DOMAIN f : RLt(RZero, f[j])} |-> f[k]]

machine_counts(d, x) ==
  [m \in DOMAIN d.machines |->
     RSum([r \in DOMAIN d.recipes |->
             IF d.recipes[r].machine = m
             THEN RDiv(x[r], get_eff_crafts_per_min(d, d.recipes[r])) ELSE RZero],
          DOMAIN d.recipes)]

raw_consumption(d, x) ==
  [item \in raw_items(d) |->
     RSum([r \in DOMAIN d.recipes |->
             IF item \in DOMAIN d.recipes[r].in
             THEN RMul(RInt(d.recipes[r].in[item]), x[r]) ELSE RZero],
          DOMAIN d.recipes)]

byproduct_surplus(d, x) ==
  [item \in byproduct_items(d) |-> Dot(net_production(d, item), x)]

\* the 'ok' response built from the solution x
FactoryOk(d, x) ==
  [NoFactoryResult EXCEPT
     !.status = "ok",
     !.per_recipe_crafts_per_min =
        Positive([r \in DOMAIN d.recipes |-> RMul(x[r], get_prod_mult(d, d.recipes[r]))]),
     !.per_machine_counts = Positive(machine_counts(d, x)),
     !.raw_consumption_per_min = Positive(raw_consumption(d, x)),
     !.byproduct_surplus_per_min = Positive(byproduct_surplus(d, x))]

\* every result try_solve_lp can return; the empty set stands for None
try_solve_lp(d, target_rate_scaled) ==
  {FactoryOk(d, x) : x \in LpOptima(d, target_rate_scaled)}

\* range(50) of the binary search
SearchRounds == 50

\* variant: the search stops on an interval below 0.1
SearchTolerance_Coarse == Rat(1, 10)

\* high - low < 0.01
SearchTolerance == Rat(1, 100)

\* max_feasible < target_rate * 0.95
HintFraction == Rat(95, 100)

\* round(v, 2) for v >= 0: to the nearest hundredth, a tie to the even one
Round2(v) ==
  LET k == (v.n * 100) \div v.d
      twice == 2 * ((v.n * 100) % v.d)
  IN  IF twice < v.d THEN Rat(k, 100)
      ELSE IF twice > v.d THEN Rat(k + 1, 100)
      ELSE IF k % 2 = 0 THEN Rat(k, 100) ELSE Rat(k + 1, 100)

\* variant: the supplied raw items are listed before the machine classes
bottlenecks_RawFirst(d, max_f) ==
  IF RLt(max_f, RMul(RInt(d.target.rate_per_min), HintFraction))
  THEN LET ms == SortNames(DOMAIN d.machines)
           is == SortNames({i \in raw_items(d) : i \in DOMAIN d.limits.raw_supply_per_min})
       IN  [i \in 1..Len(is) |-> is[i] \o " supply"] \o [i \in 1..Len(ms) |-> ms[i] \o " cap"]
  ELSE << >>

\* the candidate hints, machine classes first, then raw items with a supply
bottlenecks(d, max_f) ==
  IF RLt(max_f, RMul(RInt(d.target.rate_per_min), HintFraction))
  THEN LET ms == SortNames(DOMAIN d.machines)
           is == SortNames({i \in raw_items(d) : i \in DOMAIN d.limits.raw_supply_per_min})
       IN  [i \in 1..Len(ms) |-> ms[i] \o " cap"] \o [i \in 1..Len(is) |-> is[i] \o " supply"]
  ELSE << >>

\* variant: every candidate hint is reported
FactoryInfeasible_AllHints(d, max_f) ==
  [NoFactoryResult EXCEPT
     !.status = "infeasible",
     !.max_feasible_target_per_min = Round2(max_f),
     !.bottleneck_hint = IF bottlenecks(d, max_f) # << >>
                         THEN bottlenecks(d, max_f) ELSE << "unknown" >>]

FactoryInfeasible(d, max_f) ==
  [NoFactoryResult EXCEPT
     !.status = "infeasible",
     !.max_feasible_target_per_min = Round2(max_f),
     !.bottleneck_hint = IF bottlenecks(d, max_f) # << >>
                         THEN FirstTwo(bottlenecks(d, max_f)) ELSE << "unknown" >>]

\* ------------------------------------------------------------- requests
MaxRate == 3
MaxRaw == 2
MaxMachines == 1
MaxQty == 2

TimeChoices == {60, 62}

MachineChoices ==
  {("m1" :> [crafts_per_min |-> 1]),
   ("m1" :> [crafts_per_min |-> 1]) @@ ("m2" :> [crafts_per_min |-> 1])}

ModuleChoices ==
  {<< >>, ("m1" :> [speed |-> 1, prod |-> 0]), ("m1" :> [speed |-> 0, prod |-> 1])}

\* r1 smelts ore into plate and slag on m1, r2 turns plate into gear on the
\* last machine class
RecipeChoices(ms) ==
  {("r1" :> [machine |-> "m1", time_s |-> t, in |-> ("ore" :> q),
             out |-> ("plate" :> 1) @@ ("slag" :> 1)])
   @@ ("r2" :> [machine |-> IF "m2" \in DOMAIN ms THEN "m2" ELSE "m1", time_s |-> 60,
                in |-> ("plate" :> 1), out |-> ("gear" :> 1)]) :
     t \in TimeChoices, q \in 1..MaxQty}

TargetItems == {"gear", "plate", "ore", "widget"}

SupplyChoices == {<< >>} \cup {("ore" :> k) : k \in 1..MaxRaw}

MaxMachineChoices(ms) == UNION {[S -> 1..MaxMachines] : S \in SUBSET DOMAIN ms}

\* the requests with rates up to max_rate
FactoryRequests(max_rate) ==
  UNION {{[machines |-> ms, recipes |-> rc, modules |-> mo,
           limits |-> [raw_supply_per_min |-> su, max_machines |-> mm],
           target |-> [item |-> ti, rate_per_min |-> ra]] :
            rc \in RecipeChoices(ms), mo \in ModuleChoices, su \in SupplyChoices,
            mm \in MaxMachineChoices(ms), ti \in TargetItems, ra \in 1..max_rate} :
         ms \in MachineChoices}

\* ---------------------------------------------------------------- steps
\* the factory tool is started on its own: no belts request is in play
BeltsIdle ==
  /\ data = << >>
  /\ pc = "idle"
  /\ split_nodes = << >>
  /\ solver = EmptySolver
  /\ max_flow = 0
  /\ result = NoResult

InitFactory ==
  /\ fdata \in FactoryRequests(MaxRate)
  /\ fpc = "start"
  /\ low = RZero
  /\ high = RZero
  /\ max_feasible = RZero
  /\ iterations = 0
  /\ fresult = NoFactoryResult
  /\ lp_abnormal = 0
  /\ BeltsIdle

\* solve_factory_simplex up to the binary search: try the requested rate
SolveTarget ==
  /\ fpc = "start"
  /\ LET rs == try_solve_lp(fdata, RInt(fdata.target.rate_per_min))
     IN  IF rs # {}
         THEN /\ fresult' \in rs
              /\ fpc' = "done"
              /\ UNCHANGED << low, high, max_feasible >>
         ELSE /\ low' = RZero
              /\ high' = RInt(fdata.target.rate_per_min)
              /\ max_feasible' = RZero
              /\ fpc' = "search"
              /\ UNCHANGED fresult
  /\ UNCHANGED << fdata, iterations, lp_abnormal, belts_vars >>

\* variant: the loop has no break, it always runs all its rounds
SearchStep_NoBreak ==
  /\ fpc = "search"
  /\ iterations < SearchRounds
  /\ LET mid == RDiv(RAdd(low, high), RInt(2))
     IN  \E test_result \in {try_solve_lp(fdata, mid) # {}} :
           /\ low' = IF test_result THEN mid ELSE low
           /\ high' = IF test_result THEN high ELSE mid
           /\ max_feasible' = IF test_result THEN mid ELSE max_feasible
           /\ iterations' = iterations + 1
           /\ fpc' = IF iterations + 1 = SearchRounds THEN "hint" ELSE "search"
  /\ UNCHANGED << fdata, fresult, lp_abnormal, belts_vars >>

\* one round of the binary search
SearchStep ==
  /\ fpc = "search"
  /\ iterations < SearchRounds
  /\ LET mid == RDiv(RAdd(low, high), RInt(2))
     IN  \E test_result \in {try_solve_lp(fdata, mid) # {}} :
           LET new_low == IF test_result THEN mid ELSE low
               new_high == IF test_result THEN high ELSE mid
           IN  /\ low' = new_low
               /\ high' = new_high
               /\ max_feasible' = IF test_result THEN mid ELSE max_feasible
               /\ iterations' = iterations + 1
               /\ fpc' = IF RLt(RSub(new_high, new_low), SearchTolerance)
                            \/ iterations + 1 = SearchRounds
                         THEN "hint" ELSE "search"
  /\ UNCHANGED << fdata, fresult, lp_abnormal, belts_vars >>

\* after the loop: the bottleneck hints and the 'infeasible' response
Report ==
  /\ fpc = "hint"
  /\ fresult' = FactoryInfeasible(fdata, max_feasible)
  /\ fpc' = "done"
  /\ UNCHANGED << fdata, low, high, max_feasible, iterations, lp_abnormal, belts_vars >>

NextFactory == SolveTarget \/ SearchStep \/ Report

SpecFactory == InitFactory /\ [][NextFactory]_vars

\* ------------------------------------------- the backend ends otherwise
\* prob.solve can end with a status that is neither "Optimal" nor
\* "Infeasible" (CBC runs with timeLimit=2: "Not Solved"); try_solve_lp
\* returns None for every status other than "Optimal".
MaxAbnormal == 1

\* the first solve ends with such a status
SolveTargetNotSolved ==
  /\ fpc = "start"
  /\ lp_abnormal < MaxAbnormal
  /\ lp_abnormal' = lp_abnormal + 1
  /\ low' = RZero
  /\ high' = RInt(fdata.target.rate_per_min)
  /\ max_feasible' = RZero
  /\ fpc' = "search"
  /\ UNCHANGED << fdata, iterations, fresult, belts_vars >>

\* the solve of a midpoint ends with such a status
SearchStepNotSolved ==
  /\ fpc = "search"
  /\ iterations < SearchRounds
  /\ lp_abnormal < MaxAbnormal
  /\ lp_abnormal' = lp_abnormal + 1
  /\ LET mid == RDiv(RAdd(low, high), RInt(2))
     IN  /\ high' = mid
         /\ fpc' = IF RLt(RSub(mid, low), SearchTolerance) \/ iterations + 1 = SearchRounds
                   THEN "hint" ELSE "search"
  /\ iterations' = iterations + 1
  /\ UNCHANGED << fdata, low, max_feasible, fresult, belts_vars >>

\* requests without modules whose recipes take 60 s, for gear
BackendRequests(max_rate) ==
  {d \in FactoryRequests(max_rate) :
     /\ d.modules = << >>
     /\ d.recipes["r1"].time_s = 60
     /\ d.target.item = "gear"}

InitBackend ==
  /\ fdata \in BackendRequests(MaxRate)
  /\ fpc = "start"
  /\ low = RZero
  /\ high = RZero
  /\ max_feasible = RZero
  /\ iterations = 0
  /\ fresult = NoFactoryResult
  /\ lp_abnormal = 0
  /\ BeltsIdle

NextBackend == NextFactory \/ SolveTargetNotSolved \/ SearchStepNotSolved

SpecBackend == InitBackend /\ [][NextBackend]_vars

\* ----------------------------------------------------- response readers
Done == pc = "done"
Ok == pc = "done" /\ result.status = "ok"
Infeasible == pc = "done" /\ result.status = "infeasible"

\* the response was produced by the circulation check (solver_feasibility
\* never holds the super-source, solver2 always does)
FromCirculation == Infeasible /\ virtual_source \notin solver.nodes
FromMainFlow == Infeasible /\ virtual_source \in solver.nodes

\* flow reported for (u, v), 0 when no entry is emitted
Reported(u, v) ==
  SumSeq([i \in 1..Len(result.flows) |->
     IF result.flows[i].from = u /\ result.flows[i].to = v
     THEN result.flows[i].flow ELSE 0])

Inflow(n) ==
  SumSeq([i \in 1..Len(result.flows) |->
     IF result.flows[i].to = n THEN result.flows[i].flow ELSE 0])

Outflow(n) ==
  SumSeq([i \in 1..Len(result.flows) |->
     IF result.flows[i].from = n THEN result.flows[i].flow ELSE 0])

Supply(n) ==
  SumSeq([i \in 1..Len(data.sources) |->
     IF data.sources[i].node = n THEN data.sources[i].supply ELSE 0])

TotalSupply == SumSeq([i \in 1..Len(data.sources) |-> data.sources[i].supply])

InnerNodes == all_nodes(data) \ (source_nodes(data) \cup {data.sink})

\* lo and hi of the pair (u, v): the sums over the edges listed for it
PairLo(u, v) ==
  SumSeq([i \in 1..Len(data.edges) |->
     IF data.edges[i].from = u /\ data.edges[i].to = v THEN data.edges[i].lo ELSE 0])

PairHi(u, v) ==
  SumSeq([i \in 1..Len(data.edges) |->
     IF data.edges[i].from = u /\ data.edges[i].to = v THEN data.edges[i].hi ELSE 0])

\* ------------------------------------------- flows of the original network
\* an assignment of a flow to every listed edge, used as the reference for
\* what can be routed at all
Assignments == [1..Len(data.edges) -> 0..MaxHi]

AIn(f, n) ==
  SumSeq([i \in 1..Len(data.edges) |-> IF data.edges[i].to = n THEN f[i] ELSE 0])

AOut(f, n) ==
  SumSeq([i \in 1..Len(data.edges) |-> IF data.edges[i].from = n THEN f[i] ELSE 0])

WithinHi(f) == \A i \in 1..Len(data.edges) : f[i] <= data.edges[i].hi
WithinLo(f) == \A i \in 1..Len(data.edges) : f[i] >= data.edges[i].lo

Conserved(f) ==
  \A n \in InnerNodes :
    /\ AIn(f, n) = AOut(f, n)
    /\ n \in DOMAIN data.node_caps => AIn(f, n) <= data.node_caps[n]

RoutesAllSupply(f) ==
  /\ \A n \in source_nodes(data) : AOut(f, n) - AIn(f, n) = Supply(n)
  /\ AOut(f, data.sink) = 0

WithinSupply(f) ==
  /\ \A n \in source_nodes(data) :
       AOut(f, n) - AIn(f, n) >= 0 /\ AOut(f, n) - AIn(f, n) <= Supply(n)
  /\ AOut(f, data.sink) = 0

AllLoZero == \A i \in 1..Len(data.edges) : data.edges[i].lo = 0

\* -------------------------------------------- factory response readers
FDone == fpc = "done"
FOk == fpc = "done" /\ fresult.status = "ok"
FInfeasible == fpc = "done" /\ fresult.status = "infeasible"

TargetItem == fdata.target.item
TargetRate == RInt(fdata.target.rate_per_min)

\* net production of an item as the response reports it: out * crafts -
\* in * crafts / (1 + prod) over the recipes (per_recipe_crafts_per_min is
\* crafts times the productivity multiplier)
ResponseNet(item) ==
  RSum([r \in DOMAIN fdata.recipes |->
          LET c == Get(fresult.per_recipe_crafts_per_min, r, RZero)
              recipe == fdata.recipes[r]
          IN  RSub(IF item \in DOMAIN recipe.out THEN RMul(RInt(recipe.out[item]), c) ELSE RZero,
                   IF item \in DOMAIN recipe.in
                   THEN RDiv(RMul(RInt(recipe.in[item]), c), get_prod_mult(fdata, recipe))
                   ELSE RZero)],
       DOMAIN fdata.recipes)

\* supply of a raw item, 0 when raw_supply_per_min has no entry for it
SupplyOf(item) == RInt(Get(fdata.limits.raw_supply_per_min, item, 0))

\* the request can be met at the given rate
FeasibleAt(d, rate) == try_solve_lp(d, rate) # {}

\* the request without the supply limit of item
WithoutSupply(d, item) ==
  [d EXCEPT !.limits.raw_supply_per_min =
     [i \in DOMAIN d.limits.raw_supply_per_min \ {item} |-> d.limits.raw_supply_per_min[i]]]

\* the requested rate fails on the supply of item alone
CausedBySupply(item) ==
  /\ item \in raw_items(fdata) \cap DOMAIN fdata.limits.raw_supply_per_min
  /\ FeasibleAt(WithoutSupply(fdata, item), TargetRate)

\* the raw items that have a supply entry, sorted
SuppliedRaw == SortNames(raw_items(fdata) \cap DOMAIN fdata.limits.raw_supply_per_min)

PositionIn(s, x) == CHOOSE i \in 1..Len(s) : s[i] = x

BelowHintFraction == RLt(max_feasible, RMul(TargetRate, Rat(95, 100)))

\* the constraint families an item has among the constraints cs
FamiliesOf(cs, item) ==
  {k \in {"Target_", "Balance_", "Byproduct_", "Raw_No_Production_"} :
     \E i \in 1..Len(cs) : cs[i].name = k \o item}

ConstraintNamed(cs, name) == cs[CHOOSE i \in 1..Len(cs) : cs[i].name = name]

HasConstraint(cs, name) == \E i \in 1..Len(cs) : cs[i].name = name

\* --------------------------------------------- residual graph readers
\* the nodes of the graph in data, with its source and sink
GraphNodes == solver.nodes \cup {data.source, data.sink}

\* the nodes that a path of edges with residual > 0 reaches from S
RECURSIVE Closure(_, _)
Closure(g, S) ==
  LET T == S \cup {k[2] : k \in {q \in DOMAIN g : q[1] \in S /\ g[q] > 0}}
  IN  IF T = S THEN S ELSE Closure(g, T)

\* the paths over edges with residual > 0 from u to t that avoid the nodes
\* of seen, as node sequences
RECURSIVE ResidualPaths(_, _, _, _)
ResidualPaths(g, u, t, seen) ==
  IF u = t THEN {<< t >>}
  ELSE UNION {{<< u >> \o p : p \in ResidualPaths(g, k[2], t, seen \cup {k[2]})} :
              k \in {q \in DOMAIN g : q[1] = u /\ g[q] > 0 /\ q[2] \notin seen}}

\* p comes before q: at the first node where they differ p has the smaller
\* identifier
ComesBefore(p, q) ==
  \E i \in 1..Len(p) :
    /\ Rank(p[i]) < Rank(q[i])
    /\ \A j \in 1..(i - 1) : p[j] = q[j]

\* the shortest residual paths from s to t
ShortestPaths(g, s, t) ==
  LET all == ResidualPaths(g, s, t, {s})
  IN  {p \in all : \A q \in all : Len(p) <= Len(q)}

\* the first of the shortest residual paths
FirstShortestPath(g, s, t) ==
  LET short == ShortestPaths(g, s, t)
  IN  CHOOSE p \in short : \A q \in short \ {p} : ComesBefore(p, q)

OnPath(p, u, v) == \E i \in 1..(Len(p) - 1) : p[i] = u /\ p[i + 1] = v

PathMin(g, p) ==
  CHOOSE m \in {Residual(g, p[i], p[i + 1]) : i \in 1..(Len(p) - 1)} :
    \A i \in 1..(Len(p) - 1) : m <= Residual(g, p[i], p[i + 1])

\* the capacity added for the pair (u, v) by the add_edge calls of data
Added(u, v) ==
  SumSeq([i \in 1..Len(data.edges) |->
     IF data.edges[i].from = u /\ data.edges[i].to = v THEN data.edges[i].capacity ELSE 0])

\* the capacity added for the edges that leave the node set S
CutCapacity(S) ==
  SumSeq([i \in 1..Len(data.edges) |->
     IF data.edges[i].from \in S /\ data.edges[i].to \notin S
     THEN data.edges[i].capacity ELSE 0])

RECURSIVE Pow2(_)
Pow2(k) == IF k = 0 THEN 1 ELSE 2 * Pow2(k - 1)

\* the rates k/2 up to the largest requested rate
RateGrid == {Rat(k, 2) : k \in 1..(2 * MaxRate)}

\* -------------------------------------------------------------- claims
\* C1: on every 'ok' response the emitted flows are conserved: inflow =
\* outflow at every node that is neither a source nor the sink, outflow -
\* inflow <= supply at every source, and at the sink outflow = 0 and
\* inflow = max_flow_per_min.
C1_FlowConservation ==
  Ok =>
    /\ \A n \in InnerNodes : Inflow(n) = Outflow(n)
    /\ \A n \in source_nodes(data) : Outflow(n) - Inflow(n) <= Supply(n)
    /\ Outflow(data.sink) = 0
    /\ Inflow(data.sink) = result.max_flow_per_min

\* C2: on every 'ok' response the flow reported for every original edge
\* (u, v), 0 when no entry is emitted, lies between lo(u, v) and hi(u, v).
C2_EdgeBounds ==
  Ok =>
    \A i \in 1..Len(data.edges) :
      LET u == data.edges[i].from
          v == data.edges[i].to
      IN  PairLo(u, v) <= Reported(u, v) /\ Reported(u, v) <= PairHi(u, v)

\* C3: on every 'ok' response, for every capped node that is neither a
\* source nor the sink, the emitted flow into the node and the emitted flow
\* out of it are both <= its cap.
C3_NodeCaps ==
  Ok =>
    \A n \in InnerNodes \cap DOMAIN data.node_caps :
      Inflow(n) <= data.node_caps[n] /\ Outflow(n) <= data.node_caps[n]

\* C4: when every edge has lo = 0, the response is 'ok' exactly when all the
\* supply can be routed to the sink under the upper bounds and node caps,
\* max_flow_per_min is then the total supply, and otherwise the response is
\* 'infeasible'.
C4_ZeroLoVerdict ==
  (Done /\ AllLoZero) =>
    IF \E f \in Assignments : WithinHi(f) /\ Conserved(f) /\ RoutesAllSupply(f)
    THEN result.status = "ok" /\ result.max_flow_per_min = TotalSupply
    ELSE result.status = "infeasible"

\* C5: the circulation check answers 'infeasible' only when the original
\* network has no flow that respects every edge lower bound.
C5_CirculationVerdict ==
  FromCirculation =>
    ~ \E f \in Assignments :
        WithinLo(f) /\ WithinHi(f) /\ Conserved(f) /\ WithinSupply(f)

\* C6: the response of a request is the same for every iteration order of
\* the solver's unordered node sets (all_nodes, MaxFlowSolver.nodes).
C6_Determinism ==
  /\ FromMainFlow =>
       \A node_order \in
            Orders(solver.nodes \ ReachLoop(solver.graph, << virtual_source >>, {virtual_source})) :
          MainInfeasible(data, solver, max_flow, node_order) = result
  /\ Done =>
       \A order \in Orders(SplitSet(data)) :
         /\ solver2_init(data, order) = solver2_init(data, split_nodes)
         /\ solver_feasibility(data, order) = solver_feasibility(data, split_nodes)

\* C7: cut_reachable of an 'infeasible' response never contains the sink.
C7_CutExcludesSink ==
  Infeasible => data.sink \notin Range(result.cut_reachable)

\* C8: every node identifier of a response is a node of the request.
C8_OriginalIdentifiers ==
  Done =>
    /\ \A i \in 1..Len(result.flows) :
         {result.flows[i].from, result.flows[i].to} \subseteq all_nodes(data)
    /\ Range(result.cut_reachable) \subseteq all_nodes(data)
    /\ Range(result.tight_nodes) \subseteq all_nodes(data)
    /\ \A i \in 1..Len(result.tight_edges) :
         {result.tight_edges[i].from, result.tight_edges[i].to} \subseteq all_nodes(data)

\* C9: when the main flow is infeasible, a capped inner node whose
\* n_in -> n_out edge is saturated with n_in reachable from the super-source
\* is listed in tight_nodes (of which at most 2 are listed).
C9_TightNodes ==
  FromMainFlow =>
    \A n \in SplitSet(data) :
      (/\ InName(n) \in ReachLoop(solver.graph, << virtual_source >>, {virtual_source})
       /\ Residual(solver.graph, InName(n), OutName(n)) <= 0)
      => (n \in Range(result.tight_nodes) \/ Len(result.tight_nodes) = 2)

\* C10: edges listed for the same (from, to) are merged: the reduced network
\* gives the pair the sum of their capacities, and on 'ok' the entry emitted
\* for the pair is the total flow routed over the pair.
C10_ParallelMerged ==
  Ok =>
    \A i \in 1..Len(data.edges) :
      LET u == data.edges[i].from
          v == data.edges[i].to
          ua == u_actual(data, u)
          va == v_actual(data, v)
          routed == (solver.original_capacity[<< ua, va >>]
                     - Residual(solver.graph, ua, va)) + PairLo(u, v)
      IN  /\ solver.original_capacity[<< ua, va >>] = PairHi(u, v) - PairLo(u, v)
          /\ Reported(u, v) = IF routed > 0 THEN routed ELSE 0

\* C11: leaving "lo" out of an edge, an edge that leaves a source included,
\* gives the response of the same request with "lo": 0 written out.
C11_LoDefault ==
  Done => result \in solve_belts(WriteLo(data))

\* C12: a node_caps entry for a source or for the sink is ignored: sources
\* and sink are never split, and the response is the response of the request
\* without those entries.
C12_TerminalCapsIgnored ==
  /\ SplitSet(data) \cap (source_nodes(data) \cup {data.sink}) = {}
  /\ Done => result \in solve_belts(WithoutTerminalCaps(data))

\* C13: a malformed request (negative hi, hi < lo, node cap <= 0, negative
\* supply) ends in an error and is never answered 'ok' or 'infeasible'.
C13_MalformedRejected ==
  (Done /\ Malformed(data)) => result.status = "error"

\* C14: on every FACTORY 'ok' response the net production of the target
\* item equals the requested rate, also when the target item appears in no
\* recipe.
C14_TargetBalance ==
  FOk => ResponseNet(TargetItem) = TargetRate

\* C15: a raw item without a raw_supply_per_min entry is unusable: on every
\* 'ok' response the consumption of every raw item is <= its supply, the
\* supply being 0 when there is no entry.
C15_RawWithinSupply ==
  FOk =>
    \A item \in raw_items(fdata) :
      RLe(Get(fresult.raw_consumption_per_min, item, RZero), SupplyOf(item))

\* C16: every item of a recipe gets exactly one constraint family: target
\* (net = rate), intermediate (produced and consumed: net = 0), byproduct
\* (produced, never consumed: net >= 0), raw (never produced: net <= 0, plus
\* the supply cap of its entry); a target that no recipe produces is target.
C16_ClassificationPartition ==
  FDone =>
    \A cs \in {Constraints(fdata, TargetRate)} :
      \A item \in all_items(fdata) :
        LET net == net_production(fdata, item)
            produced == \E r \in DOMAIN fdata.recipes : item \in DOMAIN fdata.recipes[r].out
            consumed == \E r \in DOMAIN fdata.recipes : item \in DOMAIN fdata.recipes[r].in
            family == IF item = TargetItem THEN "Target_"
                      ELSE IF produced /\ consumed THEN "Balance_"
                      ELSE IF produced THEN "Byproduct_"
                      ELSE "Raw_No_Production_"
            supplied == family = "Raw_No_Production_"
                        /\ item \in DOMAIN fdata.limits.raw_supply_per_min
        IN  /\ FamiliesOf(cs, item) = {family}
            /\ \A c \in {ConstraintNamed(cs, family \o item)} :
                 /\ c.a = net
                 /\ c.op = (IF family = "Byproduct_" THEN "ge"
                            ELSE IF family = "Raw_No_Production_" THEN "le" ELSE "eq")
                 /\ c.b = (IF family = "Target_" THEN TargetRate ELSE RZero)
            /\ HasConstraint(cs, "Raw_Supply_" \o item) <=> supplied
            /\ supplied =>
                 \A c \in {ConstraintNamed(cs, "Raw_Supply_" \o item)} :
                   /\ c.a = [r \in DOMAIN net |-> RNeg(net[r])]
                   /\ c.op = "le"
                   /\ c.b = RInt(fdata.limits.raw_supply_per_min[item])

C16_Witness ==
  /\ FDone
  /\ TargetItem \in raw_items(fdata)
  /\ intermediate_items(fdata) # {}
  /\ byproduct_items(fdata) # {}

\* C17: on every FACTORY 'ok' response, per_machine_counts[m] <=
\* max_machines[m] for every class m with a max_machines entry.
C17_MachineCaps ==
  FOk =>
    \A m \in DOMAIN fdata.limits.max_machines :
      RLe(Get(fresult.per_machine_counts, m, RZero), RInt(fdata.limits.max_machines[m]))

\* a capped class is used to its cap while a class without an entry runs more
\* machines than any cap of the request
C17_Witness ==
  /\ FOk
  /\ \E m \in DOMAIN fdata.limits.max_machines :
       Get(fresult.per_machine_counts, m, RZero) = RInt(fdata.limits.max_machines[m])
  /\ \E m \in DOMAIN fdata.machines \ DOMAIN fdata.limits.max_machines :
       RLt(RInt(MaxMachines), Get(fresult.per_machine_counts, m, RZero))

\* C18 as claimed: the reported max_feasible_target_per_min is a rate found
\* feasible by the search (or 0), is feasible (never above the largest
\* feasible rate T), and T is less than 0.01 above it when the loop stopped
\* on the narrowed interval.
C18_ReportedIsFeasibleRate ==
  FInfeasible =>
    /\ fresult.max_feasible_target_per_min = max_feasible
    /\ FeasibleAt(fdata, fresult.max_feasible_target_per_min)
    /\ iterations < SearchRounds =>
         ~ FeasibleAt(fdata, RAdd(fresult.max_feasible_target_per_min, Rat(1, 100)))

\* C18 amended: the search's max_feasible is 0 or a feasible rate, hence
\* never above T, and T is less than 0.01 above it when the loop stopped on
\* the narrowed interval; the reported value is max_feasible rounded to the
\* nearest hundredth, so it is within 0.005 of it (and may exceed T).
C18_SearchAccuracy ==
  FInfeasible =>
    /\ max_feasible = RZero \/ FeasibleAt(fdata, max_feasible)
    /\ max_feasible = low
    /\ ~ FeasibleAt(fdata, high)
    /\ iterations < SearchRounds =>
         /\ RLt(RSub(high, low), Rat(1, 100))
         /\ ~ FeasibleAt(fdata, RAdd(max_feasible, Rat(1, 100)))
    /\ fresult.max_feasible_target_per_min.d \in {1, 2, 4, 5, 10, 20, 25, 50, 100}
    /\ RLe(RSub(fresult.max_feasible_target_per_min, max_feasible), Rat(1, 200))
    /\ RLe(RSub(max_feasible, fresult.max_feasible_target_per_min), Rat(1, 200))

\* the reported value was rounded up past the largest feasible rate
C18_Witness ==
  /\ FInfeasible
  /\ RLt(RZero, max_feasible)
  /\ FeasibleAt(fdata, max_feasible)
  /\ ~ FeasibleAt(fdata, fresult.max_feasible_target_per_min)

C20_HintShape ==
  FInfeasible =>
    LET candidates == {m \o " cap" : m \in DOMAIN fdata.machines}
                      \cup {i \o " supply" : i \in Range(SuppliedRaw)}
    IN  /\ Len(fresult.bottleneck_hint) \in {1, 2}
        /\ IF ~ BelowHintFraction \/ candidates = {}
           THEN fresult.bottleneck_hint = << "unknown" >>
           ELSE Range(fresult.bottleneck_hint) \subseteq candidates

\* both kinds of hint in one response
C20_Witness ==
  /\ FInfeasible
  /\ fresult.bottleneck_hint = << "m1 cap", "ore supply" >>

\* C21: feasibility is monotone in the target rate: a request that is
\* infeasible at a rate is infeasible at every larger rate; so every rate up
\* to a midpoint the search found feasible is feasible and every rate from a
\* midpoint it found infeasible on is infeasible.
C21_Monotone ==
  fpc = "hint" =>
    \A f \in {[r \in RateGrid |-> FeasibleAt(fdata, r)]} :
      /\ \A r1, r2 \in RateGrid : (RLt(r1, r2) /\ ~ f[r1]) => ~ f[r2]
      /\ \A r \in RateGrid :
           /\ RLe(r, low) => f[r]
           /\ RLe(high, r) => ~ f[r]

\* the search ended between a feasible and an infeasible rate of the grid
C21_Witness ==
  /\ fpc = "hint"
  /\ \E r1, r2 \in RateGrid :
       /\ RLe(r1, low) /\ FeasibleAt(fdata, r1)
       /\ RLt(high, r2) /\ ~ FeasibleAt(fdata, r2)

\* C22: when a solve of the request ended with a backend status that is
\* neither optimal nor infeasible, the run ends in an error, not in an 'ok'
\* or 'infeasible' response.
C22_BackendStatusSurfaced ==
  (FDone /\ lp_abnormal > 0) => fresult.status = "error"

\* C23 (FACTORY): every number of a response is a multiple of 0.01.
C23_TwoDecimals ==
  FDone =>
    /\ 100 % fresult.max_feasible_target_per_min.d = 0
    /\ \A field \in {fresult.per_recipe_crafts_per_min, fresult.per_machine_counts,
                      fresult.raw_consumption_per_min, fresult.byproduct_surplus_per_min} :
         \A k \in DOMAIN field : 100 % field[k].d = 0

\* C24: edmonds_karp terminates (every round of its loop raises max_flow by
\* at least 1 and max_flow never exceeds the capacity that leaves the
\* source), and at its return no path of edges with residual > 0 leads from
\* the source to the sink and the value returned is the capacity of the
\* edges that leave the reachable set, which no cut between source and sink
\* undercuts (max-flow = min-cut).
C24_MaxFlowMinCut ==
  /\ [][(pc = "flow" /\ pc' = "flow") => max_flow' >= max_flow + 1]_vars
  /\ [](pc = "flow" => max_flow <= CutCapacity({data.source}))
  /\ [](pc = "returned" =>
         \A R \in {Closure(solver.graph, {data.source})} :
           /\ data.sink \notin R
           /\ result.max_flow_per_min = CutCapacity(R)
           /\ Range(result.cut_reachable) = R
           /\ \A S \in SUBSET (GraphNodes \ {data.source, data.sink}) :
                result.max_flow_per_min <= CutCapacity(S \cup {data.source}))

\* a flow came back that uses both edges into the sink and leaves a node
\* other than the source reachable
C24_Witness ==
  /\ pc = "returned"
  /\ result.max_flow_per_min > 1
  /\ Residual(solver.graph, "sink", "a") > 0
  /\ Residual(solver.graph, "sink", "s2") > 0
  /\ Cardinality(Closure(solver.graph, {data.source})) > 1

\* C25: every augmentation uses a path with the fewest edges among the
\* source-to-sink paths of residual > 0, among equally short ones the path
\* that comes first in identifier order, and pushes the minimum residual of
\* that path: it is taken from the path's edges and credited to their
\* reverse edges, and nothing else changes.
C25_ShortestPathPush ==
  [][(pc = "flow" /\ pc' = "flow") =>
       \A p \in {FirstShortestPath(solver.graph, data.source, data.sink)} :
         \A m \in {PathMin(solver.graph, p)} :
           /\ m > 0
           /\ max_flow' = max_flow + m
           /\ \A u, v \in GraphNodes :
                Residual(solver'.graph, u, v) =
                  (Residual(solver.graph, u, v) - (IF OnPath(p, u, v) THEN m ELSE 0))
                  + (IF OnPath(p, v, u) THEN m ELSE 0)]_vars

\* two equally short paths were open, through a and through s2, and the
\* augmentation went through a
C25_Witness ==
  /\ pc = "flow"
  /\ max_flow > 0
  /\ Residual(solver.graph, "sink", "a") = max_flow
  /\ Added("s1", "s2") > 0 /\ Residual(solver.graph, "s1", "s2") = Added("s1", "s2")
  /\ Added("s2", "sink") > 0 /\ Residual(solver.graph, "s2", "sink") = Added("s2", "sink")
  /\ Residual(solver.graph, "a", "s1") = Added("a", "s1") + max_flow

\* C26: get_reachable_from_source(S) returns, in ascending order and
\* without duplicates, exactly the nodes that edges of residual > 0 reach
\* from S, S included, and leaves the residual graph as it was.
C26_ReachableSorted ==
  [][(pc = "flow" /\ pc' = "returned") =>
       \A r \in {result'.cut_reachable} :
         /\ Range(r) = Closure(solver.graph, {data.source})
         /\ data.source \in Range(r)
         /\ \A i, j \in 1..Len(r) : i < j => Rank(r[i]) < Rank(r[j])
         /\ solver' = solver]_vars

\* s2 is reached from the source and a only through s2, against the
\* identifier order in which the three are returned
C26_Witness ==
  /\ pc = "returned"
  /\ result.cut_reachable = << "a", "s1", "s2" >>
  /\ Residual(solver.graph, "s1", "a") = 0
  /\ result.max_flow_per_min > 0

\* C28: with capacities >= 0, after any number of augmentations every
\* residual is >= 0, graph[u][v] + graph[v][u] is the capacity added for
\* (u, v) and (v, u) together, and max_flow is the capacity taken from the
\* edges that leave the source.
C28_ResidualInvariant ==
  pc \in {"flow", "returned"} =>
    /\ \A u, v \in GraphNodes :
         /\ Residual(solver.graph, u, v) >= 0
         /\ Residual(solver.graph, u, v) + Residual(solver.graph, v, u)
              = Added(u, v) + Added(v, u)
    /\ max_flow = SumSeq([i \in 1..Len(SortIds(GraphNodes)) |->
                            Added(data.source, SortIds(GraphNodes)[i])
                            - Residual(solver.graph, data.source, SortIds(GraphNodes)[i])])

\* flow has passed over a -> s2 while s2 -> a has a capacity of its own
C28_Witness ==
  /\ pc = "flow"
  /\ max_flow > 0
  /\ Added("s2", "a") > 0
  /\ Residual(solver.graph, "a", "s2") < Added("a", "s2")

\* C27: the binary search runs at most 50 solves, keeps 0 <= low <= high <=
\* target rate and max_feasible = low, halves high - low in every round, and
\* stops after the first round that leaves high - low < 0.01.
C27_BinarySearch ==
  (fpc \in {"search", "hint"} \/ FInfeasible) =>
    /\ iterations <= 50
    /\ RLe(RZero, low) /\ RLe(low, high) /\ RLe(high, TargetRate)
    /\ max_feasible = low
    /\ (fpc = "search" /\ iterations > 0) => ~ RLt(RSub(high, low), Rat(1, 100))
    /\ fpc # "search" => (RLt(RSub(high, low), Rat(1, 100)) \/ iterations = 50)
    /\ RSub(high, low) = Rat(fdata.target.rate_per_min, Pow2(iterations))

\* the search has moved both ends of the interval before it stopped
C27_Witness ==
  /\ FInfeasible
  /\ iterations > 8
  /\ RLt(RZero, low)
  /\ RLt(high, TargetRate)

\* C29: deficit.demand_balance of every 'infeasible' response is strictly
\* positive, also when the supply of a source is smaller than the sum of the
\* lower bounds of its outgoing edges.
C29_PositiveDeficit ==
  Infeasible => result.demand_balance > 0

\* C30: the names the reducer generates never coincide with nodes of the
\* request: status and max_flow_per_min stay the same when the node "a_in"
\* of a request that caps the node "a" is given the fresh name "s2".
C30_NoNameCollision ==
  Done =>
    \A r \in solve_belts(Renamed(data, "a_in", "s2")) :
      /\ r.status = result.status
      /\ r.max_flow_per_min = result.max_flow_per_min

====
